---- MODULE Spec2Model ----
(***************************************************************************)
(* Webhook Scheduler (Serverless-Cron).                                    *)
(*                                                                         *)
(* Two Lambda handlers around the managed EventBridge Scheduler:           *)
(*   - the setter (lambda/setter/index.js) validates a request and creates *)
(*     a one-time schedule `oneTime-<Date.now()>` with expression at(...), *)
(*     ActionAfterCompletion DELETE and Input JSON.stringify({url, body}); *)
(*   - the worker (lambda/worker/index.js) receives that Input as its      *)
(*     event and POSTs body to url with one fetch call.                    *)
(* The scheduler itself is not code of the repository.  It is modelled by  *)
(* what the CreateScheduleCommand asks of it: names are unique within a    *)
(* group (a second CreateSchedule of an existing name is refused), an      *)
(* enabled schedule is delivered to the worker once its at() instant has   *)
(* been reached, delivery is at-least-once (the same schedule may be       *)
(* delivered more than once before it is removed), and the schedule is     *)
(* deleted after it has invoked its target.                                *)
(*                                                                         *)
(* Time is in milliseconds since the epoch, as Date.now() gives it.        *)
(***************************************************************************)
EXTENDS Integers, Sequences, FiniteSets, TLC

VARIABLES
    clock,       \* Date.now() of the setter's host, in ms
    env,         \* process.env of the setter: the set of variables that are set
    log,         \* the setter's handled requests with their responses, oldest first
    schedules,   \* the scheduler's store: schedule name -> schedule
    invocations  \* worker invocations: <<request index, delivery number>> -> state

vars == <<clock, env, log, schedules, invocations>>

----------------------------------------------------------------------------
(* Bounds of the model.                                                    *)

MaxRequests == 2     \* setter requests handled in one behaviour
MaxInvocations == 2  \* worker invocations in one behaviour
MaxTicks == 2        \* clock advances in one behaviour
MaxDeliveryRequests == 1  \* setter requests handled in one behaviour of DeliverySpec

(* Units.                                                                  *)
MsPerSecond == 1000
MsPerMinute == 60000
TickMs == 500        \* one clock advance
StartMs == 2000      \* the clock at the start of a behaviour

----------------------------------------------------------------------------
(* JavaScript values.  A value is a record tagged by its type in field t.  *)

Undefined == [t |-> "undefined"]
Null == [t |-> "null"]
Bool(b) == [t |-> "boolean", b |-> b]
Num(n) == [t |-> "number", n |-> n]
Str(s) == [t |-> "string", s |-> s]
Arr(a) == [t |-> "array", a |-> a]
\* an object is the sequence of its <<key, value>> properties, in insertion order
Obj(o) == [t |-> "object", o |-> o]

\* An ISO 8601 date-time string, held as the fields it spells out: the wall-clock
\* date and time in whole seconds since the epoch, the fraction in ms, and the
\* offset from UTC in minutes (0 for "Z").
Iso(sec, ms, off) == [t |-> "string", iso |-> [sec |-> sec, ms |-> ms, off |-> off]]

\* ToBoolean: what `!v` tests.
Truthy(v) ==
    CASE v.t = "undefined" -> FALSE
      [] v.t = "null" -> FALSE
      [] v.t = "boolean" -> v.b
      [] v.t = "number" -> v.n # 0
      [] v.t = "string" -> IF "s" \in DOMAIN v THEN v.s # "" ELSE TRUE
      [] OTHER -> TRUE


\* property `key` of object `obj` (undefined when absent), as destructuring reads it
RECURSIVE PropFrom(_, _, _)
PropFrom(props, key, i) ==
    IF i > Len(props) THEN Undefined
    ELSE IF props[i][1] = key THEN props[i][2]
    ELSE PropFrom(props, key, i + 1)

Prop(obj, key) == PropFrom(obj.o, key, 1)

\* JSON.stringify: the JSON text of a value.  An undefined property is dropped,
\* an undefined array element is written null.
RECURSIVE JsonStringify(_), JsonElements(_, _), JsonMembers(_, _, _)
JsonStringify(v) ==
    CASE v.t = "null" -> "null"
      [] v.t = "boolean" -> IF v.b THEN "true" ELSE "false"
      [] v.t = "number" -> ToString(v.n)
      [] v.t = "string" -> "\"" \o v.s \o "\""
      [] v.t = "array" -> "[" \o JsonElements(v.a, 1) \o "]"
      [] v.t = "object" -> "{" \o JsonMembers(v.o, 1, TRUE) \o "}"

JsonElements(a, i) ==
    IF i > Len(a) THEN ""
    ELSE (IF i > 1 THEN "," ELSE "")
         \o (IF a[i].t = "undefined" THEN "null" ELSE JsonStringify(a[i]))
         \o JsonElements(a, i + 1)

JsonMembers(o, i, first) ==
    IF i > Len(o) THEN ""
    ELSE IF o[i][2].t = "undefined" THEN JsonMembers(o, i + 1, first)
    ELSE (IF first THEN "" ELSE ",")
         \o "\"" \o o[i][1] \o "\":" \o JsonStringify(o[i][2])
         \o JsonMembers(o, i + 1, FALSE)

----------------------------------------------------------------------------
(* The inputs.                                                             *)

HookUrl == Str("https://example.com/hook")

\* target_url values: absent, empty, not a URL, an absolute URL
Urls == {Undefined, Str(""), Str("not a url"), HookUrl}

ObjectBody == Obj(<< <<"a", Num(1)>> >>)

\* target_body values: absent, and JSON values of every type, the falsy ones included
Bodies ==
    { Undefined, Null, Bool(FALSE), Bool(TRUE), Num(0), Num(1), Str(""), Str("x"),
      Arr(<<Num(1), Null>>), ObjectBody }

\* the JSON values among them
JsonBodies == Bodies \ {Undefined}

PastSec == 1      \* 1970-01-01T00:00:01, before the clock's start
FutureSec == 3    \* 1970-01-01T00:00:03, after the clock's start
OffsetMinutes == 60

\* schedule_time_utc values: absent, empty, not a date, and ISO 8601 instants in the
\* past and in the future, with a fraction of a second, and with an offset of +01:00
\* (the wall-clock time is then one hour ahead of the UTC instant)
Times ==
    { Undefined, Str(""), Str("tomorrow"),
      Iso(PastSec, 0, 0), Iso(FutureSec, 0, 0), Iso(FutureSec - 1, 500, 0),
      Iso(FutureSec + OffsetMinutes * 60, 0, OffsetMinutes) }

ValidRequest ==
    [target_url |-> HookUrl, target_body |-> ObjectBody,
     schedule_time_utc |-> Iso(FutureSec, 0, 0)]

\* The request bodies the setter is given: the valid request with one field varied
\* at a time, and the JSON text `null` (JSON.parse accepts it and yields null).
Requests ==
    {[ValidRequest EXCEPT !.target_url = u] : u \in Urls}
    \cup {[ValidRequest EXCEPT !.target_body = b] : b \in Bodies}
    \cup {[ValidRequest EXCEPT !.schedule_time_utc = t] : t \in Times}
    \cup {Null}

\* process.env of the setter as the stack deploys it, and with one variable missing
FullEnv == {"WORKER_LAMBDA_ARN", "SCHEDULER_GROUP_NAME", "SCHEDULER_EXECUTION_ROLE_ARN"}
Environments == {FullEnv} \cup {FullEnv \ {x} : x \in FullEnv}

----------------------------------------------------------------------------
(* date-fns.                                                               *)

\* parseISO: the Date of an ISO 8601 string, Invalid Date for anything else.  The
\* instant is the wall-clock time less the offset.
parseISO(v) ==
    IF v.t = "string" /\ "iso" \in DOMAIN v
    THEN [valid |-> TRUE,
          time |-> v.iso.sec * MsPerSecond + v.iso.ms - v.iso.off * MsPerMinute]
    ELSE [valid |-> FALSE, time |-> 0]

\* formatISO(date, {format: 'extended', representation: 'complete'}).slice(0, 19):
\* the date and time of `date` to the second, "yyyy-MM-ddTHH:mm:ss", in the zone of
\* the process (UTC in the Lambda runtime), with the offset cut off by the slice.
\* Held as whole seconds since the epoch; the milliseconds are not written.
formatISO(date) == date.time \div MsPerSecond

\* The instant the scheduler reads in at(<formatted>) under
\* ScheduleExpressionTimezone "UTC".
AtInstant(formatted) == formatted * MsPerSecond

----------------------------------------------------------------------------
(* The setter: lambda/setter/index.js, in the version that reads its         *)
(* configuration from process.env.                                         *)

\* `oneTime-${Date.now()}`
scheduleName(now) == "oneTime-" \o ToString(now)

\* process.env.SCHEDULER_GROUP_NAME || 'default' (the stack sets it to 'default')
schedulerGroupName(environment) ==
    IF "SCHEDULER_GROUP_NAME" \in environment THEN "default" ELSE "default"

\* { url: target_url, body: target_body }
lambdaInputPayload(target_url, target_body) ==
    Obj(<< <<"url", target_url>>, <<"body", target_body>> >>)

NoCommand == [Name |-> "", ScheduleExpression |-> 0, Input |-> "", GroupName |-> ""]

\* The handler's responses, were its catch block to answer 200 as well.
ResponseHidingErrors(statusCode, error, created, command) ==
    [statusCode |-> IF statusCode = 500 THEN 200 ELSE statusCode,
     error |-> error, created |-> created, command |-> command]

\* What a response of the handler looks like: the returned statusCode (0 when the
\* handler threw instead of returning), the error behind it, and the
\* CreateScheduleCommand when one was sent and accepted.  The 200 body names the
\* schedule from the send's response (response.Name, response.ScheduleArn); the
\* command's Name is the name the scheduler keeps and the ARN carries.
Response(statusCode, error, created, command) ==
    [statusCode |-> statusCode, error |-> error, created |-> created, command |-> command]

\* schedulerClient.send(command) throws: the name is taken in the group
\* (ConflictException), or the service cannot be reached or refuses (`sendFails`).
SendError(command, store, sendFails) ==
    IF command.Name \in DOMAIN store THEN "ConflictException"
    ELSE IF sendFails THEN "ServiceError"
    ELSE "none"

\* The handler on the parsed request body, at Date.now() = now, under process.env =
\* environment, against the scheduler's store.
handler(requestBody, now, environment, store, sendFails) ==
    IF requestBody = Null
    THEN \* destructuring null throws outside the try block
         Response(0, "TypeError", FALSE, NoCommand)
    ELSE
    LET target_url == requestBody.target_url
        target_body == requestBody.target_body
        schedule_time_utc == requestBody.schedule_time_utc
    IN  IF ~Truthy(target_url) \/ ~Truthy(target_body) \/ ~Truthy(schedule_time_utc)
        THEN Response(400, "MissingParameters", FALSE, NoCommand)
        ELSE
        LET scheduleDate == parseISO(schedule_time_utc)
            command ==
                [Name |-> scheduleName(now),
                 ScheduleExpression |-> formatISO(scheduleDate),
                 Input |-> JsonStringify(lambdaInputPayload(target_url, target_body)),
                 GroupName |-> schedulerGroupName(environment)]
            sendError == SendError(command, store, sendFails)
        IN  IF ~scheduleDate.valid
            THEN Response(500, "InvalidScheduleTime", FALSE, NoCommand)
            ELSE IF "WORKER_LAMBDA_ARN" \notin environment
            THEN Response(500, "WorkerArnNotSet", FALSE, NoCommand)
            ELSE IF "SCHEDULER_EXECUTION_ROLE_ARN" \notin environment
            THEN Response(500, "RoleArnNotSet", FALSE, NoCommand)
            ELSE IF sendError # "none"
            THEN Response(500, sendError, FALSE, NoCommand)
            ELSE Response(200, "none", TRUE, command)

\* The schedule a command creates: State ENABLED, ActionAfterCompletion DELETE,
\* FlexibleTimeWindow OFF.  `request` is the index of the creating request in the
\* log, `deliveries` the number of times the scheduler has invoked the target.
NewSchedule(command, request) ==
    [at |-> command.ScheduleExpression, Input |-> command.Input,
     GroupName |-> command.GroupName, request |-> request, deliveries |-> 0]

\* The setter, were it to answer as it does and leave out the schedule of a fire
\* time that has passed.
SetterDroppingPast(requestBody, sendFails) ==
    /\ Len(log) < MaxRequests
    /\ LET response == handler(requestBody, clock, env, schedules, sendFails)
           entry == [request |-> requestBody, now |-> clock, response |-> response]
       IN  /\ log' = Append(log, entry)
           /\ schedules' =
                IF response.created
                   /\ AtInstant(response.command.ScheduleExpression) >= clock
                THEN (response.command.Name
                        :> NewSchedule(response.command, Len(log) + 1)) @@ schedules
                ELSE schedules
    /\ UNCHANGED <<clock, env, invocations>>

\* One request handled by the setter, start to response.
Setter(requestBody, sendFails) ==
    /\ Len(log) < MaxRequests
    /\ LET response == handler(requestBody, clock, env, schedules, sendFails)
           entry == [request |-> requestBody, now |-> clock, response |-> response]
       IN  /\ log' = Append(log, entry)
           /\ schedules' =
                IF response.created
                THEN (response.command.Name
                        :> NewSchedule(response.command, Len(log) + 1)) @@ schedules
                ELSE schedules
    /\ UNCHANGED <<clock, env, invocations>>

----------------------------------------------------------------------------
(* The worker: lambda/worker/index.js.                                     *)

\* The events the scheduler can hand to the worker: the objects the setter writes
\* as Input.
Events == {lambdaInputPayload(u, b) : u \in Urls, b \in Bodies}

\* The event of an Input text: the Lambda runtime parses the JSON text.
ParseInput(text) == CHOOSE e \in Events : JsonStringify(e) = text

NoPost == [url |-> "", body |-> ""]

\* response.ok: the status is in the range 200-299
ok(status) == status >= 200 /\ status <= 299

\* The handler up to `await fetch(...)`: it returns 400 when url or body is missing,
\* and otherwise issues the one POST and waits.  `schedule` is the index of the
\* request that created the schedule delivered; `target` says whether the target
\* settles the request ("answers": a response or a connection error) or stays
\* silent for longer than the worker may run.
workerBegin(event, schedule, target) ==
    LET url == Prop(event, "url")
        body == Prop(event, "body")
    IN  IF ~Truthy(url) \/ ~Truthy(body)
        THEN [schedule |-> schedule, pc |-> "returned", post |-> NoPost,
              target |-> target, outcome |-> "none", status |-> 0, statusCode |-> 400]
        ELSE [schedule |-> schedule, pc |-> "fetching",
              post |-> [url |-> url.s, body |-> JsonStringify(body)],
              target |-> target, outcome |-> "none", status |-> 0, statusCode |-> 0]

\* The handler from the settled fetch to its return: statusCode 200 when a response
\* came and is ok, statusCode 500 from the catch block otherwise (a response that is
\* not ok, or fetch rejecting with a connection error).
workerEnd(invocation, outcome, status) ==
    [invocation EXCEPT
        !.pc = "returned",
        !.outcome = outcome,
        !.status = status,
        !.statusCode = IF outcome = "response" /\ ok(status) THEN 200 ELSE 500]

\* The worker, were its function to have no timeout: the invocation stays as it is.
workerNeverKilled(invocation) == invocation

\* The Lambda runtime ends an invocation that is still running when the function's
\* timeout (30 seconds) is over: nothing is returned.
workerKilled(invocation) == [invocation EXCEPT !.pc = "timedOut", !.outcome = "timeout"]

\* HTTP statuses a target answers with
Statuses == {200, 204, 503}

----------------------------------------------------------------------------
(* The scheduler and the worker's invocations.                             *)

Due(name) == clock >= AtInstant(schedules[name].at)

\* The scheduler invokes the worker with the schedule's Input, at or after the at()
\* instant; the handler runs up to its fetch.  It may do so again for as long as
\* the schedule is there (at-least-once delivery).
Deliver(name, target) ==
    /\ name \in DOMAIN schedules
    /\ Due(name)
    /\ Len(invocations) < MaxInvocations
    /\ invocations' =
         Append(invocations,
                workerBegin(ParseInput(schedules[name].Input),
                            schedules[name].request, target))
    /\ schedules' = [schedules EXCEPT ![name].deliveries = @ + 1]
    /\ UNCHANGED <<clock, env, log>>

\* ActionAfterCompletion DELETE: the scheduler deletes the schedule after it has
\* invoked the target.
Complete(name) ==
    /\ name \in DOMAIN schedules
    /\ schedules[name].deliveries >= 1
    /\ schedules' = [n \in DOMAIN schedules \ {name} |-> schedules[n]]
    /\ UNCHANGED <<clock, env, log, invocations>>

\* The target answers invocation i's POST with a status.
WorkerResponse(i, status) ==
    /\ i \in DOMAIN invocations
    /\ invocations[i].pc = "fetching"
    /\ invocations[i].target = "answers"
    /\ invocations' = [invocations EXCEPT ![i] = workerEnd(@, "response", status)]
    /\ UNCHANGED <<clock, env, log, schedules>>

\* Invocation i's fetch rejects: the connection fails.
WorkerFetchError(i) ==
    /\ i \in DOMAIN invocations
    /\ invocations[i].pc = "fetching"
    /\ invocations[i].target = "answers"
    /\ invocations' = [invocations EXCEPT ![i] = workerEnd(@, "error", 0)]
    /\ UNCHANGED <<clock, env, log, schedules>>

\* The worker's timeout ends invocation i, whose target has not answered.
WorkerTimeout(i) ==
    /\ i \in DOMAIN invocations
    /\ invocations[i].pc = "fetching"
    /\ invocations[i].target = "silent"
    /\ invocations' = [invocations EXCEPT ![i] = workerKilled(@)]
    /\ UNCHANGED <<clock, env, log, schedules>>

\* Time passes.
Tick ==
    /\ clock < StartMs + MaxTicks * TickMs
    /\ clock' = clock + TickMs
    /\ UNCHANGED <<env, log, schedules, invocations>>

----------------------------------------------------------------------------
(* Specifications.                                                         *)

NoSchedules == [n \in {} |-> 0]

Init ==
    /\ clock = StartMs
    /\ env \in Environments
    /\ log = <<>>
    /\ schedules = NoSchedules
    /\ invocations = <<>>

ScheduleNames == {scheduleName(StartMs + k * TickMs) : k \in 0..MaxTicks}
Targets == {"answers", "silent"}

Next ==
    \/ \E requestBody \in Requests, sendFails \in BOOLEAN : Setter(requestBody, sendFails)
    \/ \E name \in ScheduleNames, target \in Targets : Deliver(name, target)
    \/ \E name \in ScheduleNames : Complete(name)
    \/ \E i \in 1..MaxInvocations, status \in Statuses : WorkerResponse(i, status)
    \/ \E i \in 1..MaxInvocations : WorkerFetchError(i)
    \/ \E i \in 1..MaxInvocations : WorkerTimeout(i)
    \/ Tick

Spec == Init /\ [][Next]_vars

----------------------------------------------------------------------------
(* The delivery of schedules, under the stack's deployment: process.env as the    *)
(* stack sets it, requests that differ in their fire time, and the fairness the   *)
(* platform gives: the scheduler delivers a due schedule and deletes a delivered  *)
(* one, a target that answers does answer, and the Lambda runtime enforces the    *)
(* worker's timeout.                                                              *)

DeliveryRequests ==
    {[ValidRequest EXCEPT !.schedule_time_utc = t] :
        t \in {Iso(PastSec, 0, 0), Iso(FutureSec, 0, 0)}}

DeliveryStatuses == {200, 503}

DeliveryInit ==
    /\ clock = StartMs
    /\ env = FullEnv
    /\ log = <<>>
    /\ schedules = NoSchedules
    /\ invocations = <<>>

DeliveryNext ==
    \/ \E requestBody \in DeliveryRequests, sendFails \in BOOLEAN :
          Len(log) < MaxDeliveryRequests /\ Setter(requestBody, sendFails)
    \/ \E name \in ScheduleNames, target \in Targets : Deliver(name, target)
    \/ \E name \in ScheduleNames : Complete(name)
    \/ \E i \in 1..MaxInvocations, status \in DeliveryStatuses : WorkerResponse(i, status)
    \/ \E i \in 1..MaxInvocations : WorkerFetchError(i)
    \/ \E i \in 1..MaxInvocations : WorkerTimeout(i)
    \/ Tick

DeliveryFairness ==
    /\ \A name \in ScheduleNames : WF_vars(Complete(name))
    /\ \A i \in 1..MaxInvocations :
          /\ WF_vars(\E status \in DeliveryStatuses : WorkerResponse(i, status))
          /\ WF_vars(WorkerTimeout(i))

DeliverySpec == DeliveryInit /\ [][DeliveryNext]_vars /\ DeliveryFairness

----------------------------------------------------------------------------
(* What the claims speak of.                                               *)

\* the invocations that have issued the POST of the schedule request k created
Posts(k) ==
    {i \in DOMAIN invocations :
        invocations[i].schedule = k /\ invocations[i].post # NoPost}

\* the invocations of the schedule request k created
Deliveries(k) == {i \in DOMAIN invocations : invocations[i].schedule = k}

\* a delivery of request k's schedule has concluded: the worker has returned
Concluded(k) == \E i \in Deliveries(k) : invocations[i].pc = "returned"

\* request k's schedule is in the scheduler's store
Pending(k) == \E n \in DOMAIN schedules : schedules[n].request = k

\* the fire time request k asks for, in ms
FireTime(k) == parseISO(log[k].request.schedule_time_utc).time

\* request k carries the three fields, and its schedule time is an ISO 8601 instant
HasFields(k) ==
    /\ log[k].request # Null
    /\ log[k].request.target_url # Undefined
    /\ log[k].request.target_body # Undefined
    /\ log[k].request.schedule_time_utc # Undefined

HasFireTime(k) == HasFields(k) /\ parseISO(log[k].request.schedule_time_utc).valid

\* the only target_url among the inputs that is a syntactically valid absolute URL
WellFormedUrl(v) == v = HookUrl

\* errors of the store and of its configuration
StoreErrors == {"ConflictException", "ServiceError", "WorkerArnNotSet", "RoleArnNotSet"}

----------------------------------------------------------------------------
\* C1: every created schedule's webhook POST is issued at most once, however many
\* deliveries of the schedule race: no schedule has two POSTs.
ExactlyOnceDelivery ==
    \A k \in DOMAIN log : Cardinality(Posts(k)) <= 1

\* C2: a schedule asked for fire time T is written with an at() instant that is not
\* before T, and no POST for it is issued while the clock is before T.
NeverFiredBeforeFireTime ==
    \A k \in DOMAIN log :
        log[k].response.created =>
            /\ AtInstant(log[k].response.command.ScheduleExpression) >= FireTime(k)
            /\ (Posts(k) # {} => clock >= FireTime(k))

\* C3: every call with valid input succeeds with an id of its own: none is refused
\* because its name is taken, and no two accepted calls were given the same name.
UniqueScheduleIds ==
    \A j, k \in DOMAIN log :
        /\ log[k].response.error # "ConflictException"
        /\ (j # k /\ log[j].response.created /\ log[k].response.created)
              => log[j].response.command.Name # log[k].response.command.Name

\* C4: a request object that fails validation (a missing field, an empty or malformed
\* target_url, an unparseable schedule time) is answered 400, and 500 is answered
\* only for a failure of the store or its configuration.
ValidationFailuresAnswered400 ==
    \A k \in DOMAIN log :
        /\ (log[k].request # Null
             /\ (~HasFireTime(k) \/ ~WellFormedUrl(log[k].request.target_url)))
              => log[k].response.statusCode = 400
        /\ log[k].response.statusCode = 500 => log[k].response.error \in StoreErrors

\* request k passes the handler's own checks: the three fields are truthy and the
\* schedule time is an ISO 8601 instant
WellFormed(k) ==
    /\ HasFireTime(k)
    /\ Truthy(log[k].request.target_url)
    /\ Truthy(log[k].request.target_body)

NeverFiredAfterConclusion ==
    [][\A k \in DOMAIN log :
          Concluded(k) =>
             /\ Posts(k)' = Posts(k)
             /\ (~Pending(k) => ~Pending(k)')]_vars

\* request k's schedule has been delivered to the worker
Delivered(k) == Deliveries(k) # {}

\* request k's schedule is out of the store and none of its deliveries is in flight
Settled(k) ==
    /\ ~Pending(k)
    /\ \A i \in Deliveries(k) : invocations[i].pc # "fetching"

\* C7: a schedule that has been delivered is in the end out of the store with no
\* delivery in flight, and stays so: also when its target never answers and when
\* the same schedule was delivered more than once.
DeliveredEventuallySettled ==
    \A k \in 1..MaxRequests : [](Delivered(k) => <>[]Settled(k))

\* C7 happens: a delivery whose target never answered was ended by the timeout, and
\* its schedule is settled.
TimedOutAndSettled ==
    \E i \in DOMAIN invocations :
        /\ invocations[i].pc = "timedOut"
        /\ Settled(invocations[i].schedule)

\* JSON.parse of a body text
JsonParse(text) == CHOOSE v \in JsonBodies : JsonStringify(v) = text

\* C8: a request with the target URL, a fire time and any JSON value as target_body,
\* the falsy ones included, is not turned down as lacking a parameter, every delivery
\* of its schedule issues the POST, to the submitted URL, and the POST's body parses
\* to the submitted target_body.
PayloadFidelity ==
    \A k \in DOMAIN log :
        (HasFireTime(k) /\ log[k].request.target_url = HookUrl
            /\ log[k].request.target_body \in JsonBodies) =>
            /\ log[k].response.error # "MissingParameters"
            /\ Deliveries(k) = Posts(k)
            /\ \A i \in Posts(k) :
                  /\ invocations[i].post.url = log[k].request.target_url.s
                  /\ JsonParse(invocations[i].post.body) = log[k].request.target_body

\* C9: an invocation that has issued its POST and is over has returned, with
\* statusCode 200 exactly when the target answered with a 2xx status and statusCode
\* 500 for every other response, timeout or connection error.
WorkerReportsEveryOutcome ==
    \A i \in DOMAIN invocations :
        (invocations[i].post # NoPost /\ invocations[i].pc # "fetching") =>
            /\ invocations[i].pc = "returned"
            /\ invocations[i].statusCode =
                  IF invocations[i].outcome = "response" /\ ok(invocations[i].status)
                  THEN 200 ELSE 500

----------------------------------------------------------------------------
(* The setter's answers against the scheduler's store, under every process.env of *)
(* Environments: requests that pass, that lack a field and that carry no date,    *)
(* and sends that fail.  The scheduler delivers and deletes the schedules; what  *)
(* the worker then does with a delivery plays no part here and is left out.       *)

ResponseRequests ==
    { ValidRequest,
      [ValidRequest EXCEPT !.schedule_time_utc = Iso(PastSec, 0, 0)],
      [ValidRequest EXCEPT !.target_url = Undefined],
      [ValidRequest EXCEPT !.schedule_time_utc = Str("tomorrow")] }

ResponseNext ==
    \/ \E requestBody \in ResponseRequests, sendFails \in BOOLEAN :
          Setter(requestBody, sendFails)
    \/ \E name \in ScheduleNames, target \in Targets : Deliver(name, target)
    \/ \E name \in ScheduleNames : Complete(name)
    \/ Tick

ResponseSpec == Init /\ [][ResponseNext]_vars

\* C11: in every step, a request just answered 200 has added exactly one schedule,
\* its own, to the store, and one answered otherwise (400, 500, or the handler
\* throwing) has left the store as it was; a request not answered 200 has no
\* schedule in the store and no delivery, now or later; and when only
\* SCHEDULER_GROUP_NAME is missing, no request fails for the configuration and the
\* schedule goes to the group 'default'.
ResponseAgreesWithStore ==
    [][/\ Len(log') = Len(log) + 1 =>
            LET k == Len(log')
                response == log'[k].response
            IN  IF response.statusCode = 200
                THEN /\ response.command.Name \notin DOMAIN schedules
                     /\ DOMAIN schedules' = DOMAIN schedules \cup {response.command.Name}
                     /\ \A n \in DOMAIN schedules : schedules'[n] = schedules[n]
                     /\ schedules'[response.command.Name].request = k
                     /\ schedules'[response.command.Name].Input = response.command.Input
                ELSE schedules' = schedules
       /\ \A k \in DOMAIN log' :
             log'[k].response.statusCode # 200 => ~Pending(k)' /\ Deliveries(k)' = {}
       /\ env = FullEnv \ {"SCHEDULER_GROUP_NAME"} =>
             \A k \in DOMAIN log' :
                /\ log'[k].response.error \notin {"WorkerArnNotSet", "RoleArnNotSet"}
                /\ log'[k].response.created =>
                      log'[k].response.command.GroupName = "default"]_vars

\* C11 happens: under a process.env without SCHEDULER_GROUP_NAME one request was
\* answered 200 and its schedule delivered, and another was answered 500 by a failed
\* send and has no schedule.
AnsweredBothWays ==
    /\ "SCHEDULER_GROUP_NAME" \notin env
    /\ \E j, k \in DOMAIN log :
          /\ log[j].response.statusCode = 200 /\ Deliveries(j) # {}
          /\ log[k].response.statusCode = 500
          /\ log[k].response.error \in {"ConflictException", "ServiceError"}
          /\ ~Pending(k)

====
